---- MODULE Spec2Model ----
(***************************************************************************)
(* The embedding server of backend/embedding/server.py as a state machine: *)
(* the main thread (download, servicer construction, bind, start, signal   *)
(* handler installation, wait_for_termination), the gRPC server with its   *)
(* thread pool, the requests, the termination signals and the interpreter's *)
(* exit.                                                                   *)
(*                                                                         *)
(* Library behaviour the code relies on:                                   *)
(*  - grpc.Server.stop(grace) stops service of new RPCs at once, starts a  *)
(*    thread that cancels the RPCs still active after grace seconds, and   *)
(*    returns without waiting.                                             *)
(*  - sys.exit(0) in a signal handler raises SystemExit in the main thread; *)
(*    the interpreter then joins the pool's worker threads and the other   *)
(*    non-daemon threads before the process ends.  An exception raised by  *)
(*    a signal handler during that join is ignored and ends the join.      *)
(*  - A signal without a Python handler has its default disposition:       *)
(*    SIGTERM kills the process, SIGINT raises KeyboardInterrupt.          *)
(***************************************************************************)
EXTENDS Integers, Sequences, FiniteSets

\* Requests the clients issue in one run.
NumRequests == 3
\* EMBEDDING_MAX_WORKERS of the run (server.py line 29 reads it, default 10).
MAX_WORKERS == 2
\* EMBEDDING_GRACEFUL_SHUTDOWN_TIMEOUT of the run (line 30, default 30).
GRACEFUL_SHUTDOWN_TIMEOUT == 2
\* Time units the clock runs on after the grace deadline.
MaxOverrun == 1
\* Termination signals delivered in one run.
MaxSignals == 2

Requests == 1..NumRequests
Signals == {"SIGTERM", "SIGINT"}

VARIABLES
    pc,              \* position of the main thread
    model_loaded,    \* self.model is set
    reranker_loaded, \* self.reranker is set
    stage,           \* the gRPC server: CREATED, STARTED, GRACE, TERMINATED
    sig_handler,     \* signal -> "SIG_DFL" or "graceful_shutdown"
    exit_status,     \* the process's exit status, -1 while it runs
    call,            \* request -> state of its RPC
    work,            \* request -> state of its handler in the thread pool
    queue,           \* the thread pool's work queue
    elapsed,         \* time units since the first server.stop
    timers,          \* deadlines of the live cancel-after-grace threads
    arrived,         \* number of requests issued so far
    signals,         \* number of termination signals delivered so far
    stop_calls,      \* number of times graceful_shutdown has run
    exit_cause,      \* why the process is ending
    signal_in,       \* lifecycle state in which the ending signal arrived
    req,             \* request -> the message the client sent
    resp,            \* request -> what its handler returned
    engine_calls,    \* request -> calls of model.encode / reranker.predict
    transport,       \* what the server listens with: "none", "tls"
    tls_configured,  \* EMBEDDING_CRT and EMBEDDING_KEY hold a valid pair
    port_free        \* the port of EMBEDDING_PORT can be bound

vars == <<pc, model_loaded, reranker_loaded, stage, sig_handler, exit_status,
          call, work, queue, elapsed, timers, arrived, signals, stop_calls,
          exit_cause, signal_in, req, resp, engine_calls, transport,
          tls_configured, port_free>>

main_vars == <<pc, exit_status, exit_cause, signal_in>>
engine_vars == <<model_loaded, reranker_loaded>>
payload_vars == <<req, resp, engine_calls>>
request_vars == <<call, work, queue, arrived, payload_vars>>
transport_vars == <<transport, tls_configured, port_free>>
shutdown_vars == <<stage, elapsed, timers, signals, stop_calls>>

\* The handlers executing in the pool.
Running == {r \in Requests : work[r] = "running"}
\* The accepted RPCs that have no outcome yet.
Active == {r \in Requests : call[r] = "active"}

\* The ServerLifecycleState of the spec, read off the process.
ServerLifecycleState ==
    IF pc = "exited" THEN "Stopped"
    ELSE IF stop_calls > 0 THEN "Draining"
    ELSE IF stage = "STARTED" THEN "Serving"
    ELSE "Starting"

\* The input batches the clients send as texts or as passages.
Batches == {<<>>, <<"hello", "world">>, <<"world", "hello", "hello">>}

EmbeddingRequest(texts) ==
    [method |-> "GenerateEmbeddings", query |-> "", items |-> texts]
RerankingRequest(query, passages) ==
    [method |-> "RerankPassages", query |-> query, items |-> passages]
HealthCheckRequest ==
    [method |-> "HealthCheck", query |-> "", items |-> <<>>]
NoRequest == [method |-> "none", query |-> "", items |-> <<>>]

\* Every request the clients may send.
AllRequests ==
    {EmbeddingRequest(b) : b \in Batches}
        \cup {RerankingRequest("cat", b) : b \in Batches}
        \cup {HealthCheckRequest}

\* One request of each method.
Samples ==
    {EmbeddingRequest(<<"hello", "world">>),
     RerankingRequest("cat", <<"world", "hello", "hello">>),
     HealthCheckRequest}

\* What a handler returns: the status code and details set on the context
\* and the fields of the response message.
Response(code, details, payload) ==
    [code |-> code, details |-> details, payload |-> payload]
NoResponse == Response("none", "", <<>>)

\* The environment of the process: whether EMBEDDING_CRT and EMBEDDING_KEY
\* hold a certificate/key pair and whether the port can be bound.
InitEnvironment ==
    /\ tls_configured \in BOOLEAN
    /\ port_free \in BOOLEAN

Init ==
    /\ pc = "download"
    /\ model_loaded = FALSE
    /\ reranker_loaded = FALSE
    /\ stage = "CREATED"
    /\ sig_handler = [s \in Signals |-> "SIG_DFL"]
    /\ exit_status = -1
    /\ call = [r \in Requests |-> "none"]
    /\ work = [r \in Requests |-> "idle"]
    /\ queue = <<>>
    /\ elapsed = 0
    /\ timers = <<>>
    /\ arrived = 0
    /\ signals = 0
    /\ stop_calls = 0
    /\ exit_cause = "none"
    /\ signal_in = "none"
    /\ req = [r \in Requests |-> NoRequest]
    /\ resp = [r \in Requests |-> NoResponse]
    /\ engine_calls = [r \in Requests |-> 0]
    /\ transport = "none"
    /\ InitEnvironment

----------------------------------------------------------------------------
(* Startup *)

\* An exception that leaves the main thread: traceback, exit status 1.
Uncaught(cause) ==
    /\ pc' = "exited"
    /\ exit_status' = 1
    /\ exit_cause' = cause
    /\ signal_in' = signal_in

\* download_model_if_needed(): loads both models once to fill the cache and
\* re-raises what the load raises.
DownloadModelIfNeeded ==
    /\ pc = "download"
    /\ \/ /\ pc' = "load_model"
          /\ UNCHANGED <<exit_status, exit_cause, signal_in>>
       \/ Uncaught("download_failure")
    /\ UNCHANGED <<engine_vars, sig_handler, transport_vars, request_vars, shutdown_vars>>

\* A slip in the except clause: log and exit with status 0.
InitExceptExitZero ==
    /\ pc' = "exited"
    /\ exit_status' = 0
    /\ exit_cause' = "load_failure"
    /\ signal_in' = signal_in

\* The except clause of EmbeddingServiceServicer.__init__: log and re-raise.
\* Nothing in serve() or in the main block catches it.
InitExcept == Uncaught("load_failure")

\* self.model = SentenceTransformer(...), inside the try of __init__.
LoadModel ==
    /\ pc = "load_model"
    /\ \/ /\ model_loaded' = TRUE
          /\ pc' = "load_reranker"
          /\ UNCHANGED <<exit_status, exit_cause, signal_in>>
       \/ /\ InitExcept
          /\ UNCHANGED model_loaded
    /\ UNCHANGED <<reranker_loaded, sig_handler, transport_vars, request_vars, shutdown_vars>>

\* A slip: the failure of the reranker load is logged and swallowed.
LoadRerankerSwallowed ==
    /\ pc = "load_reranker"
    /\ \/ reranker_loaded' = TRUE
       \/ UNCHANGED reranker_loaded
    /\ pc' = "bind"
    /\ UNCHANGED <<exit_status, exit_cause, signal_in>>
    /\ UNCHANGED <<model_loaded, sig_handler, transport_vars, request_vars, shutdown_vars>>

\* self.reranker = CrossEncoder(...), inside the same try.
LoadReranker ==
    /\ pc = "load_reranker"
    /\ \/ /\ reranker_loaded' = TRUE
          /\ pc' = "bind"
          /\ UNCHANGED <<exit_status, exit_cause, signal_in>>
       \/ /\ InitExcept
          /\ UNCHANGED reranker_loaded
    /\ UNCHANGED <<model_loaded, sig_handler, transport_vars, request_vars, shutdown_vars>>

\* A variant with a plaintext mode: add_insecure_port when no pair is set.
BindWithInsecureFallback ==
    /\ pc = "bind"
    /\ IF port_free
       THEN /\ transport' = IF tls_configured THEN "tls" ELSE "plaintext"
            /\ pc' = "start"
            /\ UNCHANGED <<exit_status, exit_cause, signal_in>>
       ELSE /\ Uncaught("bind_failure")
            /\ UNCHANGED transport
    /\ UNCHANGED <<engine_vars, sig_handler, tls_configured, port_free,
                   request_vars, shutdown_vars>>

\* Decode the certificate and key, build the SSL credentials, add the
\* secure port: there is no other port.  With a valid pair and a free port
\* the server listens with TLS.  Otherwise add_secure_port fails: it raises
\* in the gRPC versions that check the result and returns 0 in the older
\* ones, where serve() goes on to start a server that listens nowhere.
Bind ==
    /\ pc = "bind"
    /\ IF tls_configured /\ port_free
       THEN /\ transport' = "tls"
            /\ pc' = "start"
            /\ UNCHANGED <<exit_status, exit_cause, signal_in>>
       ELSE /\ UNCHANGED transport
            /\ \/ Uncaught("bind_failure")
               \/ /\ pc' = "start"
                  /\ UNCHANGED <<exit_status, exit_cause, signal_in>>
    /\ UNCHANGED <<engine_vars, sig_handler, tls_configured, port_free,
                   request_vars, shutdown_vars>>

\* server.start(): from here on the dispatcher accepts requests.
StartServer ==
    /\ pc = "start"
    /\ stage' = "STARTED"
    /\ pc' = "install_sigterm"
    /\ UNCHANGED <<exit_status, exit_cause, signal_in>>
    /\ UNCHANGED <<engine_vars, sig_handler, transport_vars, request_vars, elapsed, timers,
                   signals, stop_calls>>

\* signal.signal(signal.SIGTERM, graceful_shutdown)
InstallSigterm ==
    /\ pc = "install_sigterm"
    /\ sig_handler' = [sig_handler EXCEPT !["SIGTERM"] = "graceful_shutdown"]
    /\ pc' = "install_sigint"
    /\ UNCHANGED <<exit_status, exit_cause, signal_in>>
    /\ UNCHANGED <<engine_vars, transport_vars, request_vars, shutdown_vars>>

\* signal.signal(signal.SIGINT, graceful_shutdown); the main thread then
\* blocks in server.wait_for_termination().
InstallSigint ==
    /\ pc = "install_sigint"
    /\ sig_handler' = [sig_handler EXCEPT !["SIGINT"] = "graceful_shutdown"]
    /\ pc' = "wait"
    /\ UNCHANGED <<exit_status, exit_cause, signal_in>>
    /\ UNCHANGED <<engine_vars, transport_vars, request_vars, shutdown_vars>>

----------------------------------------------------------------------------
(* Requests: the dispatcher and the thread pool *)

\* The main thread is unwinding from a KeyboardInterrupt: the interpreter is
\* ending although server.stop was never called.  What the dispatcher does
\* with a request that arrives then is left out of the model.
Unwinding == pc = "finalizing" /\ stop_calls = 0

\* The server admits RPCs: it is started, not stopped, and has a port.
Listening == stage = "STARTED" /\ transport # "none"

\* A client issues the next request, one of those offered.  Before
\* server.start() there is no listener and after server.stop() the server
\* admits no new RPC: the request is rejected.  In between it is accepted
\* and submitted to the ThreadPoolExecutor, which puts it on its work queue.
ArriveWith(offered) ==
    /\ pc # "exited"
    /\ ~Unwinding
    /\ arrived < NumRequests
    /\ arrived' = arrived + 1
    /\ LET r == arrived + 1 IN
         /\ \E message \in offered : req' = [req EXCEPT ![r] = message]
         /\ IF Listening
            THEN /\ call' = [call EXCEPT ![r] = "active"]
                 /\ work' = [work EXCEPT ![r] = "queued"]
                 /\ queue' = Append(queue, r)
            ELSE /\ call' = [call EXCEPT ![r] = "rejected"]
                 /\ UNCHANGED <<work, queue>>
    /\ UNCHANGED <<resp, engine_calls>>
    /\ UNCHANGED <<main_vars, engine_vars, sig_handler, transport_vars, shutdown_vars>>

\* The clients send one request of each method, in any order and number.
Arrive == ArriveWith(Samples)

\* The clients send any request.
ArriveAny == ArriveWith(AllRequests)

\* A work item waits and a worker is idle.
PickReady == queue # <<>> /\ Cardinality(Running) < MAX_WORKERS

\* A slip: the pool starts a thread for every work item.
WorkerPickUnbounded ==
    /\ pc # "exited"
    /\ queue # <<>>
    /\ LET r == Head(queue) IN
         /\ queue' = Tail(queue)
         /\ work' = [work EXCEPT ![r] =
                        IF call[r] = "active" THEN "running" ELSE "skipped"]
    /\ UNCHANGED <<main_vars, engine_vars, sig_handler, transport_vars, shutdown_vars,
                   call, arrived, payload_vars>>

\* A worker of ThreadPoolExecutor(max_workers=MAX_WORKERS) takes the oldest
\* work item.  The handler is invoked unless the RPC was cancelled while it
\* waited.
WorkerPick ==
    /\ pc # "exited"
    /\ PickReady
    /\ LET r == Head(queue) IN
         /\ queue' = Tail(queue)
         /\ work' = [work EXCEPT ![r] =
                        IF call[r] = "active" THEN "running" ELSE "skipped"]
    /\ UNCHANGED <<main_vars, engine_vars, sig_handler, transport_vars, shutdown_vars,
                   call, arrived, payload_vars>>

\* The handler returns with the given status; the response is sent unless
\* the RPC was cancelled in the meantime.
Respond(r, status) ==
    /\ work' = [work EXCEPT ![r] = "returned"]
    /\ call' = IF call[r] = "active" THEN [call EXCEPT ![r] = status] ELSE call
    /\ UNCHANGED <<queue, arrived, req>>

----------------------------------------------------------------------------
(* The Inference Engine and the handlers *)

\* self.model.encode(texts): one embedding per text, in the order of the
\* texts.  The engine is opaque: an embedding is named by its text.
Encode(texts) == [i \in 1..Len(texts) |-> <<"embedding", texts[i]>>]

\* quantize_embeddings(embeddings, precision='ubinary'): row by row.
QuantizeEmbeddings(embeddings) ==
    [i \in 1..Len(embeddings) |-> <<"ubinary", embeddings[i]>>]

\* embedding.tobytes()
ToBytes(embedding) == <<"bytes", embedding>>

\* self.reranker.predict(input_pairs).tolist(): one score per pair, in the
\* order of the pairs.
Predict(input_pairs) ==
    [i \in 1..Len(input_pairs) |-> <<"score", input_pairs[i]>>]

\* Where the try body of a handler raises: nowhere, or in one of its calls
\* (for tobytes, at the k-th embedding); a fault in reading the request
\* comes before the engine is called.
NoFault == [at |-> "none", k |-> 0]
FaultPoints(request) ==
    IF request.method = "GenerateEmbeddings"
    THEN {[at |-> "texts", k |-> 0], [at |-> "encode", k |-> 0],
          [at |-> "quantize", k |-> 0]}
            \cup {[at |-> "tobytes", k |-> k] : k \in 1..Len(request.items)}
    ELSE IF request.method = "RerankPassages"
    THEN {[at |-> "passages", k |-> 0], [at |-> "predict", k |-> 0],
          [at |-> "extend", k |-> 0]}
    ELSE {}

\* AppendAll with the embeddings inserted at the front of the response.
AppendAllReversed(response, embeddings) ==
    response \o [i \in 1..Len(embeddings) |->
                    ToBytes(embeddings[Len(embeddings) + 1 - i])]

\* for embedding in embeddings: response.embeddings.append(embedding.tobytes())
RECURSIVE AppendAll(_, _)
AppendAll(response, embeddings) ==
    IF embeddings = <<>> THEN response
    ELSE AppendAll(Append(response, ToBytes(Head(embeddings))), Tail(embeddings))

\* The try body of GenerateEmbeddings up to the fault: whether it raised,
\* the response message it has built and the engine calls it made.
GenerateEmbeddingsTry(request, fault) ==
    LET texts == request.items
        embeddings == QuantizeEmbeddings(Encode(texts))
    IN  IF fault.at = "texts"
        THEN [raised |-> TRUE, response |-> <<>>, calls |-> 0]
        ELSE IF fault.at \in {"encode", "quantize"}
        THEN [raised |-> TRUE, response |-> <<>>, calls |-> 1]
        ELSE IF fault.at = "tobytes"
        THEN [raised |-> TRUE,
              response |-> AppendAll(<<>>, SubSeq(embeddings, 1, fault.k - 1)),
              calls |-> 1]
        ELSE [raised |-> FALSE, response |-> AppendAll(<<>>, embeddings),
              calls |-> 1]

\* GenerateEmbeddings whose except clause returns the response object the
\* try body was filling.
GenerateEmbeddingsPartial(request, fault) ==
    LET try == GenerateEmbeddingsTry(request, fault)
    IN  IF try.raised
        THEN [response |-> Response("INTERNAL", "Error generating embeddings",
                                    try.response),
              calls |-> try.calls]
        ELSE [response |-> Response("OK", "", try.response), calls |-> try.calls]

\* def GenerateEmbeddings(self, request, context): the response of the try
\* body, or INTERNAL with a fresh, empty response from the except clause.
GenerateEmbeddings(request, fault) ==
    LET try == GenerateEmbeddingsTry(request, fault)
    IN  IF try.raised
        THEN [response |-> Response("INTERNAL", "Error generating embeddings", <<>>),
              calls |-> try.calls]
        ELSE [response |-> Response("OK", "", try.response), calls |-> try.calls]

\* InputPairs with the passage first.
InputPairsSwapped(query, passages) ==
    [i \in 1..Len(passages) |-> <<passages[i], query>>]

\* input_pairs = [(query, passage) for passage in passages]
InputPairs(query, passages) ==
    [i \in 1..Len(passages) |-> <<query, passages[i]>>]

\* The try body of RerankPassages up to the fault.
RerankPassagesTry(request, fault) ==
    LET scores == Predict(InputPairs(request.query, request.items))
    IN  IF fault.at = "passages"
        THEN [raised |-> TRUE, response |-> <<>>, calls |-> 0]
        ELSE IF fault.at \in {"predict", "extend"}
        THEN [raised |-> TRUE, response |-> <<>>, calls |-> 1]
        ELSE [raised |-> FALSE, response |-> scores, calls |-> 1]

\* def RerankPassages(self, request, context)
RerankPassages(request, fault) ==
    LET try == RerankPassagesTry(request, fault)
    IN  IF try.raised
        THEN [response |-> Response("INTERNAL", "Error reranking passages", <<>>),
              calls |-> try.calls]
        ELSE [response |-> Response("OK", "", try.response), calls |-> try.calls]

\* HealthCheck that probes the model with an encode call.
HealthCheckProbingEngine(request) ==
    [response |-> Response("OK", "", <<"healthy">>), calls |-> 1]

\* def HealthCheck(self, request, context)
HealthCheck(request) ==
    [response |-> Response("OK", "", <<"healthy">>), calls |-> 0]

\* The servicer method the dispatcher invokes for the request.
Handle(request, fault) ==
    IF request.method = "GenerateEmbeddings" THEN GenerateEmbeddings(request, fault)
    ELSE IF request.method = "RerankPassages" THEN RerankPassages(request, fault)
    ELSE HealthCheck(request)

\* The handler of r returns what Handle gives for the fault.
Return(r, fault) ==
    LET result == Handle(req[r], fault) IN
      /\ Respond(r, result.response.code)
      /\ resp' = [resp EXCEPT ![r] = result.response]
      /\ engine_calls' = [engine_calls EXCEPT ![r] = @ + result.calls]

\* The dying process takes its threads and its open RPCs with it.
Die ==
    /\ call' = [r \in Requests |->
                  IF call[r] = "active" THEN "lost" ELSE call[r]]
    /\ work' = [r \in Requests |->
                  IF work[r] \in {"queued", "running"} THEN "killed" ELSE work[r]]
    /\ queue' = <<>>
    /\ UNCHANGED payload_vars

\* A slip: a handler without the try/except, whose exception ends the process.
HandlerExceptUncaught(r) ==
    /\ Die
    /\ arrived' = arrived
    /\ pc' = "exited"
    /\ exit_status' = 1
    /\ exit_cause' = "request_fault"
    /\ signal_in' = signal_in

\* HandlerReturn with one response object shared by the requests of a
\* method: the items of an earlier request are still in it.
HandlerReturnSharedResponse(r) ==
    LET result == Handle(req[r], NoFault)
        earlier == {q \in Requests : /\ q # r
                                     /\ work[q] = "returned"
                                     /\ req[q].method = req[r].method
                                     /\ resp[q].code = "OK"}
    IN  /\ Respond(r, "OK")
        /\ \/ /\ earlier = {}
              /\ resp' = [resp EXCEPT ![r] = result.response]
           \/ \E q \in earlier :
                resp' = [resp EXCEPT ![r] =
                           Response("OK", "", resp[q].payload \o result.response.payload)]
        /\ engine_calls' = [engine_calls EXCEPT ![r] = @ + result.calls]
        /\ UNCHANGED main_vars

\* The try body of a handler ran through: return response.
HandlerReturn(r) ==
    /\ Return(r, NoFault)
    /\ UNCHANGED main_vars

\* HandlerExcept where the fault of one handler fails every handler that is
\* running.
HandlerExceptPoisoning(r) ==
    /\ FaultPoints(req[r]) # {}
    /\ work' = [q \in Requests |->
                  IF work[q] = "running" THEN "returned" ELSE work[q]]
    /\ call' = [q \in Requests |->
                  IF work[q] = "running" /\ call[q] = "active"
                  THEN "INTERNAL" ELSE call[q]]
    /\ resp' = [q \in Requests |->
                  IF work[q] = "running"
                  THEN Response("INTERNAL", "Error generating embeddings", <<>>)
                  ELSE resp[q]]
    /\ engine_calls' = [q \in Requests |->
                          IF work[q] = "running" THEN engine_calls[q] + 1
                          ELSE engine_calls[q]]
    /\ UNCHANGED <<queue, arrived, req, main_vars>>

\* The except clause of GenerateEmbeddings and of RerankPassages: set the
\* code INTERNAL and return an empty response.
HandlerExcept(r) ==
    /\ \E fault \in FaultPoints(req[r]) : Return(r, fault)
    /\ UNCHANGED main_vars

\* A running handler finishes, one way or the other.
Complete(r) ==
    /\ pc # "exited"
    /\ work[r] = "running"
    /\ \/ HandlerReturn(r)
       \/ HandlerExcept(r)
    /\ UNCHANGED <<engine_vars, sig_handler, transport_vars, shutdown_vars>>

----------------------------------------------------------------------------
(* Signals and shutdown *)

\* server.stop(GRACEFUL_SHUTDOWN_TIMEOUT).  A started server stops admitting
\* RPCs; until it has terminated, every call starts one more thread that
\* cancels the RPCs still active when the grace period is over.  The call
\* returns at once.
ServerStop ==
    /\ stage' = IF stage = "STARTED" THEN "GRACE" ELSE stage
    /\ timers' = IF stage \in {"STARTED", "GRACE"}
                 THEN Append(timers, elapsed + GRACEFUL_SHUTDOWN_TIMEOUT)
                 ELSE timers

\* An exception leaves the main thread (SystemExit, KeyboardInterrupt) and
\* the interpreter starts to finalize, joining the worker threads.  Raised
\* in the middle of that join, it ends the join and the process with it.
Unwind(status) ==
    IF pc = "finalizing"
    THEN /\ pc' = "exited"
         /\ exit_status' = exit_status
         /\ Die
    ELSE /\ pc' = "finalizing"
         /\ exit_status' = status
         /\ UNCHANGED <<call, work, queue, payload_vars>>

\* A slip: the handler exits without stopping the server.
graceful_shutdown_without_stop ==
    /\ stop_calls' = stop_calls + 1
    /\ UNCHANGED <<stage, timers>>
    /\ Unwind(0)

\* def graceful_shutdown(signum, frame): server.stop(...); sys.exit(0)
graceful_shutdown ==
    /\ stop_calls' = stop_calls + 1
    /\ ServerStop
    /\ Unwind(0)

\* The default disposition of SIGTERM: the kernel ends the process.
Killed ==
    /\ pc' = "exited"
    /\ exit_status' = 143
    /\ Die
    /\ UNCHANGED <<stop_calls, stage, timers>>

\* The default Python handler of SIGINT raises KeyboardInterrupt.
KeyboardInterrupt ==
    /\ Unwind(130)
    /\ UNCHANGED <<stop_calls, stage, timers>>

\* The operating system delivers a termination signal to the process.
Signal(sig) ==
    /\ pc # "exited"
    /\ signals < MaxSignals
    /\ signals' = signals + 1
    /\ exit_cause' = "signal"
    /\ signal_in' = IF exit_cause = "none" THEN ServerLifecycleState ELSE signal_in
    /\ IF sig_handler[sig] = "graceful_shutdown" THEN graceful_shutdown
       ELSE IF sig = "SIGTERM" THEN Killed
       ELSE KeyboardInterrupt
    /\ UNCHANGED <<engine_vars, sig_handler, transport_vars, elapsed, arrived>>

\* The server has stopped admitting RPCs and none is left: it terminates
\* and releases the threads waiting for the grace period.
TerminationReady == stage = "GRACE" /\ Active = {}

ServerTerminated ==
    /\ pc # "exited"
    /\ TerminationReady
    /\ stage' = "TERMINATED"
    /\ timers' = <<>>
    /\ UNCHANGED <<main_vars, engine_vars, sig_handler, transport_vars, request_vars,
                   elapsed, signals, stop_calls>>

\* A grace period is over: cancel_all_calls().  The handlers that run go on
\* running; their responses are dropped.
TimerExpired ==
    /\ pc # "exited"
    /\ timers # <<>>
    /\ Head(timers) <= elapsed
    /\ timers' = Tail(timers)
    /\ call' = [r \in Requests |->
                  IF call[r] = "active" THEN "cancelled" ELSE call[r]]
    /\ UNCHANGED <<main_vars, engine_vars, sig_handler, transport_vars, work, queue,
                   arrived, payload_vars, stage, elapsed, signals, stop_calls>>

\* The interpreter has joined every worker and every grace thread.
ExitReady ==
    /\ pc = "finalizing"
    /\ Running = {}
    /\ queue = <<>>
    /\ timers = <<>>

InterpreterExit ==
    /\ ExitReady
    /\ pc' = "exited"
    /\ UNCHANGED <<exit_status, exit_cause, signal_in>>
    /\ UNCHANGED <<engine_vars, sig_handler, transport_vars, request_vars, shutdown_vars>>

\* A time unit passes after the first server.stop.  The steps that take no
\* time (a due cancellation, the server's termination, the interpreter's
\* exit, an idle worker taking a work item) come first.
Tick ==
    /\ pc # "exited"
    /\ stop_calls > 0
    /\ elapsed < GRACEFUL_SHUTDOWN_TIMEOUT + MaxOverrun
    /\ \A i \in 1..Len(timers) : timers[i] > elapsed
    /\ ~TerminationReady
    /\ ~ExitReady
    /\ ~PickReady
    /\ elapsed' = elapsed + 1
    /\ UNCHANGED <<main_vars, engine_vars, sig_handler, transport_vars, request_vars,
                   stage, timers, signals, stop_calls>>

----------------------------------------------------------------------------

Next ==
    \/ DownloadModelIfNeeded
    \/ LoadModel
    \/ LoadReranker
    \/ Bind
    \/ StartServer
    \/ InstallSigterm
    \/ InstallSigint
    \/ Arrive
    \/ WorkerPick
    \/ \E r \in Requests : Complete(r)
    \/ \E sig \in Signals : Signal(sig)
    \/ ServerTerminated
    \/ TimerExpired
    \/ InterpreterExit
    \/ Tick

Spec == Init /\ [][Next]_vars

\* The server in Serving with both signal handlers installed, as serve()
\* leaves it when it enters server.wait_for_termination().
InitServing ==
    /\ pc = "wait"
    /\ model_loaded = TRUE
    /\ reranker_loaded = TRUE
    /\ stage = "STARTED"
    /\ sig_handler = [s \in Signals |-> "graceful_shutdown"]
    /\ exit_status = -1
    /\ call = [r \in Requests |-> "none"]
    /\ work = [r \in Requests |-> "idle"]
    /\ queue = <<>>
    /\ elapsed = 0
    /\ timers = <<>>
    /\ arrived = 0
    /\ signals = 0
    /\ stop_calls = 0
    /\ exit_cause = "none"
    /\ signal_in = "none"
    /\ req = [r \in Requests |-> NoRequest]
    /\ resp = [r \in Requests |-> NoResponse]
    /\ engine_calls = [r \in Requests |-> 0]
    /\ transport = "tls"
    /\ tls_configured = TRUE
    /\ port_free = TRUE

\* The handlers at work on any requests, while no signal arrives.
NextServing ==
    \/ ArriveAny
    \/ WorkerPick
    \/ \E r \in Requests : Complete(r)

SpecServing == InitServing /\ [][NextServing]_vars

\* The scheduling the runtime gives: an idle worker takes the next queued
\* request, a running handler finishes (its engine call terminates), timers
\* fire, time passes, and the main thread and the interpreter go on.
Fairness ==
    /\ WF_vars(WorkerPick)
    /\ \A r \in Requests : WF_vars(Complete(r))
    /\ WF_vars(ServerTerminated)
    /\ WF_vars(TimerExpired)
    /\ WF_vars(InterpreterExit)
    /\ WF_vars(Tick)

FairSpec == Spec /\ Fairness

----------------------------------------------------------------------------
(* Claims *)

\* The grace deadline fixed by the first server.stop has elapsed.
DeadlineElapsed == stop_calls > 0 /\ elapsed >= GRACEFUL_SHUTDOWN_TIMEOUT

\* The requests abandoned: cancelled by the server or lost with the process.
Abandoned == {r \in Requests : call[r] \in {"cancelled", "lost"}}

\* C1: after a termination signal has started the graceful shutdown, no
\* in-flight request is abandoned before the grace deadline has elapsed.
C1_NoAbandonBeforeDeadline ==
    (stop_calls > 0 /\ Abandoned # {}) => DeadlineElapsed

C3_StoppedAtDrainOrDeadline ==
    (stop_calls > 0 /\ signals = 1) =>
        /\ pc = "exited" => (Abandoned = {} \/ DeadlineElapsed)
        /\ elapsed > GRACEFUL_SHUTDOWN_TIMEOUT => pc = "exited"

\* C4: a termination signal delivered while the server is Serving moves it
\* to Draining.
C4_SignalInServingDrains ==
    [][(ServerLifecycleState = "Serving" /\ signals' = signals + 1) =>
          ServerLifecycleState' = "Draining"]_vars

\* C5: the drain sequence is entered at most once and at most one deadline
\* timer is ever started.
C5_DrainEnteredOnce ==
    /\ stop_calls <= 1
    /\ Len(timers) <= 1

\* C6: no request is accepted or handled while the server is Starting, and
\* whenever a request has been accepted both models are loaded.
C6_NoRequestBeforeLoaded ==
    /\ ServerLifecycleState = "Starting" =>
          \A r \in Requests : call[r] \in {"none", "rejected"} /\ work[r] = "idle"
    /\ \A r \in Requests :
          (call[r] \notin {"none", "rejected"} \/ work[r] # "idle") =>
              (model_loaded /\ reranker_loaded)
    /\ stage # "CREATED" => (model_loaded /\ reranker_loaded)

\* C6's case: a request that came during Starting was rejected and a later
\* one was handled.
C6_Witness ==
    \E q, r \in Requests : q < r /\ call[q] = "rejected" /\ call[r] = "OK"

\* A model load failed, in the pre-download or in the servicer.
LoadFailed == exit_cause \in {"download_failure", "load_failure"}

\* C7: after a model load has failed the process has ended with a non-zero
\* status, the server was never started, no request was accepted, and no
\* load is attempted again.
C7_LoadFailureFatal ==
    /\ [](LoadFailed =>
            /\ pc = "exited"
            /\ exit_status \notin {-1, 0}
            /\ stage = "CREATED"
            /\ ~(model_loaded /\ reranker_loaded)
            /\ \A r \in Requests : call[r] \in {"none", "rejected"})
    /\ [][LoadFailed => UNCHANGED <<pc, model_loaded, reranker_loaded, stage>>]_vars

\* C7's case: the reranker load failed after the model was loaded.
C7_Witness ==
    /\ exit_cause = "load_failure"
    /\ model_loaded
    /\ ~reranker_loaded
    /\ pc = "exited"

\* C8: a process that ended because of a termination signal received in
\* Serving or Draining has exit status 0.
C8_ExitStatusZero ==
    (pc = "exited" /\ exit_cause = "signal" /\ signal_in \in {"Serving", "Draining"})
        => exit_status = 0

\* The order of the lifecycle states.
Rank(state) ==
    CASE state = "Starting" -> 0
      [] state = "Serving" -> 1
      [] state = "Draining" -> 2
      [] state = "Stopped" -> 3

\* C9: the lifecycle state never moves back, Serving is left only by a
\* termination signal, and nothing changes once the process is Stopped.
C9_LifecycleForward ==
    [][/\ Rank(ServerLifecycleState') >= Rank(ServerLifecycleState)
       /\ (ServerLifecycleState = "Serving" /\ ServerLifecycleState' # "Serving")
             => (exit_cause' = "signal" /\ signals' >= 1)
       /\ ServerLifecycleState = "Stopped" => UNCHANGED vars]_vars

\* C9's case: the process went through Draining to Stopped after a request
\* had failed with INTERNAL.
C9_Witness ==
    /\ ServerLifecycleState = "Stopped"
    /\ stop_calls > 0
    /\ \E r \in Requests : call[r] = "INTERNAL"

\* C10: at most MAX_WORKERS handlers run at a time; a request that arrives
\* in Serving while all workers are busy is accepted and queued, and a
\* queued request stays queued until a worker runs it, unless the process
\* ends or the request is cancelled.
C10_BoundedWorkers ==
    /\ [](Cardinality(Running) <= MAX_WORKERS)
    /\ [][\A r \in Requests :
            /\ (/\ ServerLifecycleState = "Serving"
                /\ Cardinality(Running) = MAX_WORKERS
                /\ call[r] = "none" /\ call'[r] # "none")
                  => (call'[r] = "active" /\ work'[r] = "queued"
                      /\ queue' = Append(queue, r))
            /\ (work[r] = "queued" /\ pc' # "exited")
                  => \/ work'[r] = "queued"
                     \/ work'[r] = "running" /\ Cardinality(Running) < MAX_WORKERS
                     \/ work'[r] = "skipped" /\ call[r] # "active"]_vars

\* C10's case: every worker is busy and an accepted request waits.
C10_Witness ==
    /\ ServerLifecycleState = "Serving"
    /\ Cardinality(Running) = MAX_WORKERS
    /\ \E r \in Requests : work[r] = "queued" /\ call[r] = "active"

\* The requests whose handler has returned a response.
Returned == {r \in Requests : resp[r].code # "none"}

\* C11: a handler that met a fault returns an empty response, never a
\* partially filled one, with the code INTERNAL and a detail message; a
\* response that is not INTERNAL is OK and complete; and the engine is
\* invoked at most once for a request, so nothing is retried.
C11_FaultGivesEmptyInternal ==
    \A r \in Requests :
      /\ engine_calls[r] <= 1
      /\ resp[r].code \in {"none", "OK", "INTERNAL"}
      /\ resp[r].code = "INTERNAL"
            => /\ resp[r].payload = <<>>
               /\ resp[r].details \in {"Error generating embeddings",
                                       "Error reranking passages"}
               /\ req[r].method \in {"GenerateEmbeddings", "RerankPassages"}
               /\ call[r] \in {"INTERNAL", "cancelled", "lost"}
      /\ (resp[r].code = "OK" /\ req[r].method # "HealthCheck")
            => Len(resp[r].payload) = Len(req[r].items)

\* C11's case: a handler that was given several items and had called the
\* engine met a fault, and its caller got INTERNAL.
C11_Witness ==
    \E r \in Requests :
      /\ call[r] = "INTERNAL"
      /\ resp[r].code = "INTERNAL"
      /\ Len(req[r].items) >= 2
      /\ engine_calls[r] = 1

\* C12: a fault in the handler of one request ends neither the process nor
\* the lifecycle state it is in, leaves the engine as it is and touches no
\* other request; and a request answered OK while or after another request
\* met a fault has the response its own input gives.
C12_FaultContained ==
    /\ [][\A r \in Requests :
            (resp[r].code = "none" /\ resp'[r].code = "INTERNAL")
              => /\ pc' = pc
                 /\ exit_status' = exit_status
                 /\ ServerLifecycleState' = ServerLifecycleState
                 /\ engine_vars' = engine_vars
                 /\ \A q \in Requests \ {r} :
                      /\ call'[q] = call[q]
                      /\ work'[q] = work[q]
                      /\ resp'[q] = resp[q]
                      /\ req'[q] = req[q]]_vars
    /\ [](\A q \in Requests :
            (call[q] = "OK" /\ \E r \in Requests : resp[r].code = "INTERNAL")
              => resp[q] = Handle(req[q], NoFault).response)

\* C12's case: two handlers ran at the same time, one met a fault and the
\* other was answered OK, and the server is still Serving.
C12_Witness ==
    /\ ServerLifecycleState = "Serving"
    /\ pc # "exited"
    /\ \E r, q \in Requests :
         /\ r < q
         /\ call[r] = "INTERNAL"
         /\ call[q] = "OK"
         /\ req[q].method # "HealthCheck"
         /\ \E p \in Requests : work[p] = "running"

\* C13: a GenerateEmbeddings that succeeds returns as many vectors as it
\* was given texts, and vector i is the quantized encoding of text i.
C13_OneVectorPerText ==
    \A r \in Requests :
      (req[r].method = "GenerateEmbeddings" /\ resp[r].code = "OK")
        => /\ Len(resp[r].payload) = Len(req[r].items)
           /\ \A i \in 1..Len(req[r].items) :
                resp[r].payload[i] =
                  <<"bytes", <<"ubinary", <<"embedding", req[r].items[i]>>>>>>

\* C13's case: a batch of three texts, two of them equal, was embedded.
C13_Witness ==
    \E r \in Requests :
      /\ req[r].method = "GenerateEmbeddings"
      /\ call[r] = "OK"
      /\ Len(req[r].items) = 3
      /\ Len(resp[r].payload) = 3

\* C14: a RerankPassages that succeeds returns as many scores as it was
\* given passages, and score i is the engine's score of (query, passage i).
C14_OneScorePerPassage ==
    \A r \in Requests :
      (req[r].method = "RerankPassages" /\ resp[r].code = "OK")
        => /\ Len(resp[r].payload) = Len(req[r].items)
           /\ \A i \in 1..Len(req[r].items) :
                resp[r].payload[i] =
                  <<"score", <<req[r].query, req[r].items[i]>>>>

\* C14's case: three passages were scored against a query.
C14_Witness ==
    \E r \in Requests :
      /\ req[r].method = "RerankPassages"
      /\ call[r] = "OK"
      /\ Len(req[r].items) = 3
      /\ Len(resp[r].payload) = 3

\* C15: a HealthCheck that was dispatched to a worker has not met a fault;
\* once it has returned, its response is "healthy" with no error, whatever
\* the requests before it did, and the engine was not invoked for it.
C15_HealthCheckHealthy ==
    \A r \in Requests :
      req[r].method = "HealthCheck"
        => /\ engine_calls[r] = 0
           /\ resp[r].code # "INTERNAL"
           /\ work[r] = "returned"
                => /\ resp[r] = Response("OK", "", <<"healthy">>)
                   /\ call[r] = "OK"

\* C15's case: a HealthCheck was answered after an earlier request failed.
C15_Witness ==
    \E r, q \in Requests :
      /\ q < r
      /\ call[q] = "INTERNAL"
      /\ req[r].method = "HealthCheck"
      /\ call[r] = "OK"

C17_HandlersShareNoState ==
    /\ [][\A r \in Requests :
            (resp[r].code = "none" /\ resp'[r].code # "none")
              => /\ engine_vars' = engine_vars
                 /\ ServerLifecycleState' = ServerLifecycleState
                 /\ stage' = stage
                 /\ transport' = transport
                 /\ sig_handler' = sig_handler
                 /\ req' = req
                 /\ \A q \in Requests \ {r} : resp'[q] = resp[q]]_vars
    /\ [](\A q, r \in Returned :
            (req[q] = req[r] /\ resp[q].code = resp[r].code)
              => resp[q] = resp[r])

\* C17's case: the same non-empty request was answered twice, with a
\* different request answered in between.
C17_Witness ==
    \E q, p, r \in Requests :
      /\ q < p /\ p < r
      /\ req[q] = req[r]
      /\ req[p].method # req[q].method
      /\ req[q].items # <<>>
      /\ call[q] = "OK" /\ call[p] = "OK" /\ call[r] = "OK"

\* The outcomes of an accepted request.
Settled == {"OK", "INTERNAL", "cancelled", "lost"}

\* C18: every accepted request eventually has an outcome and only one: it
\* was executed by a worker and answered OK or INTERNAL with what its
\* handler returned, or it was abandoned when the grace deadline of a
\* shutdown had elapsed; an outcome, once there, never changes.
C18_ExactlyOneOutcome ==
    /\ \A r \in Requests : (call[r] = "active") ~> (call[r] \in Settled)
    /\ [][\A r \in Requests : call[r] \in Settled => call'[r] = call[r]]_vars
    /\ [](\A r \in Requests :
            /\ call[r] \in {"OK", "INTERNAL"}
                 => (work[r] = "returned" /\ resp[r].code = call[r])
            /\ call[r] \in {"cancelled", "lost"}
                 => (stop_calls > 0 /\ elapsed >= GRACEFUL_SHUTDOWN_TIMEOUT))
====
